---------------------------- MODULE Spec2Model ----------------------------
(***************************************************************************)
(* A model of the @compiled babel plugin's orchestration core               *)
(* (src/packages/react/src/index.ts, lines 61-319): the pre hook that       *)
(* builds the per-file state and selects the cache, the Program.enter       *)
(* pragma/xcss scan, the ImportDeclaration tracker, the call/template and   *)
(* JSX dispatchers, and the Program.exit finalization.                      *)
(*                                                                         *)
(* Text (module specifiers, paths, comments, the raw code) is a sequence    *)
(* of one-character strings, so that path.join/resolve/basename/dirname,    *)
(* String.endsWith and the regular expressions are computed as the code     *)
(* computes them.  Identifier names are plain strings: the code only        *)
(* compares them for equality.                                              *)
(***************************************************************************)
EXTENDS Naturals, Sequences, FiniteSets

(***************************************************************************)
(* Text literals.                                                          *)
(***************************************************************************)
\* index.ts:65  const DEFAULT_IMPORT_SOURCE = '@compiled/react'
DEFAULT_IMPORT_SOURCE ==
  <<"@","c","o","m","p","i","l","e","d","/","r","e","a","c","t">>

T_react == <<"r","e","a","c","t">>
T_jsxImportSource ==
  <<"@","j","s","x","I","m","p","o","r","t","S","o","u","r","c","e">>
T_jsx == <<"@","j","s","x">>
T_jsxToken == <<"j","s","x">>
T_css_eq_brace == <<"c","s","s","=","{">>
T_File == <<"F","i","l","e">>
T_empty == << >>

(***************************************************************************)
(* String primitives.                                                      *)
(***************************************************************************)
\* s.startsWith(lit, i) with 1-based i
StartsWithAt(s, i, lit) ==
  /\ i + Len(lit) - 1 <= Len(s)
  /\ \A k \in 1..Len(lit) : s[i + k - 1] = lit[k]

\* String.prototype.endsWith
EndsWith(s, suffix) ==
  /\ Len(suffix) <= Len(s)
  /\ \A k \in 1..Len(suffix) : s[Len(s) - Len(suffix) + k] = suffix[k]

\* the regular expression class \s, over the characters the model uses
IsWhitespace(ch) == ch \in {" ", "\n", "\t"}

(***************************************************************************)
(* Node's posix path module, as far as the plugin uses it.                 *)
(***************************************************************************)
RECURSIVE SplitFrom(_, _, _)
\* the "/"-separated segments of s[i..], cur being the segment under way
SplitFrom(s, i, cur) ==
  IF i > Len(s) THEN <<cur>>
  ELSE IF s[i] = "/" THEN <<cur>> \o SplitFrom(s, i + 1, << >>)
  ELSE SplitFrom(s, i + 1, Append(cur, s[i]))

Split(s) == SplitFrom(s, 1, << >>)

RECURSIVE JoinSegments(_)
JoinSegments(segs) ==
  IF Len(segs) = 0 THEN << >>
  ELSE IF Len(segs) = 1 THEN segs[1]
  ELSE segs[1] \o <<"/">> \o JoinSegments(Tail(segs))

RECURSIVE NormalizeSegments(_, _, _)
\* path.posix normalizeString: drops "" and ".", resolves ".."
NormalizeSegments(segs, acc, allowAboveRoot) ==
  IF Len(segs) = 0 THEN acc
  ELSE LET seg == Head(segs)
           rest == Tail(segs)
       IN IF seg = << >> \/ seg = <<".">>
            THEN NormalizeSegments(rest, acc, allowAboveRoot)
          ELSE IF seg = <<".", ".">>
            THEN IF Len(acc) > 0 /\ acc[Len(acc)] # <<".", ".">>
                   THEN NormalizeSegments(rest, SubSeq(acc, 1, Len(acc) - 1),
                                          allowAboveRoot)
                 ELSE IF allowAboveRoot
                   THEN NormalizeSegments(rest, Append(acc, seg), allowAboveRoot)
                 ELSE NormalizeSegments(rest, acc, allowAboveRoot)
          ELSE NormalizeSegments(rest, Append(acc, seg), allowAboveRoot)

IsAbsolute(p) == Len(p) > 0 /\ p[1] = "/"

\* path.normalize
Normalize(p) ==
  IF Len(p) = 0 THEN <<".">>
  ELSE LET abs == IsAbsolute(p)
           trailing == p[Len(p)] = "/"
           body == JoinSegments(NormalizeSegments(Split(p), << >>, ~abs))
           body1 == IF Len(body) = 0 /\ ~abs THEN <<".">> ELSE body
           body2 == IF Len(body1) > 0 /\ trailing
                      THEN Append(body1, "/") ELSE body1
       IN IF abs THEN <<"/">> \o body2 ELSE body2

\* path.join(a, b)
join(a, b) ==
  IF Len(a) = 0 /\ Len(b) = 0 THEN <<".">>
  ELSE IF Len(a) = 0 THEN Normalize(b)
  ELSE IF Len(b) = 0 THEN Normalize(a)
  ELSE Normalize(a \o <<"/">> \o b)

\* path.resolve(from, to), from being absolute (a file's directory)
resolve(from, to) ==
  LET full == IF IsAbsolute(to) THEN to
              ELSE IF Len(to) = 0 THEN from
              ELSE from \o <<"/">> \o to
      body == JoinSegments(NormalizeSegments(Split(full), << >>, FALSE))
  IN <<"/">> \o body

RECURSIVE StripTrailingSlashes(_)
StripTrailingSlashes(p) ==
  IF Len(p) > 0 /\ p[Len(p)] = "/"
    THEN StripTrailingSlashes(SubSeq(p, 1, Len(p) - 1))
  ELSE p

\* path.basename(p)
basename(p) ==
  LET q == StripTrailingSlashes(p)
      segs == Split(q)
  IN IF Len(q) = 0 THEN << >> ELSE segs[Len(segs)]

\* path.dirname(p)
dirname(p) ==
  LET q == StripTrailingSlashes(p)
      segs == Split(q)
      dir == JoinSegments(SubSeq(segs, 1, Len(segs) - 1))
  IN IF Len(p) = 0 THEN <<".">>
     ELSE IF Len(q) = 0 THEN <<"/">>
     ELSE IF Len(segs) = 1 THEN <<".">>
     ELSE IF Len(StripTrailingSlashes(dir)) = 0 THEN <<"/">>
     ELSE StripTrailingSlashes(dir)

(***************************************************************************)
(* The regular expressions of index.ts.                                    *)
(***************************************************************************)
\* the positions where `lit`, one or more \s and then a non-\s character follow
AnnotationStarts(s, lit) ==
  { i \in 1..Len(s) :
      /\ StartsWithAt(s, i, lit)
      /\ i + Len(lit) <= Len(s)
      /\ IsWhitespace(s[i + Len(lit)])
      /\ \E j \in (i + Len(lit) + 1)..Len(s) :
            /\ ~IsWhitespace(s[j])
            /\ \A k \in (i + Len(lit))..(j - 1) : IsWhitespace(s[k]) }

Min(S) == CHOOSE x \in S : \A y \in S : x <= y

\* /\*?\s*<lit>\s+([^\s]+)/.exec(s): whether it matches, and its group 1.  The
\* optional prefix \*?\s* never changes which occurrence of <lit> is the leftmost one.
AnnotationExec(s, lit) ==
  LET starts == AnnotationStarts(s, lit)
  IN IF starts = {} THEN [matched |-> FALSE, group |-> << >>]
     ELSE LET i == Min(starts)
              from == Min({ j \in (i + Len(lit) + 1)..Len(s) : ~IsWhitespace(s[j]) })
              stops == { j \in from..Len(s) : IsWhitespace(s[j]) }
              to == IF stops = {} THEN Len(s) ELSE Min(stops) - 1
          IN [matched |-> TRUE, group |-> SubSeq(s, from, to)]

\* index.ts:63  JSX_SOURCE_ANNOTATION_REGEX = /\*?\s*@jsxImportSource\s+([^\s]+)/
JSX_SOURCE_ANNOTATION_REGEX(s) == AnnotationExec(s, T_jsxImportSource)

\* index.ts:64  JSX_ANNOTATION_REGEX = /\*?\s*@jsx\s+([^\s]+)/
JSX_ANNOTATION_REGEX(s) == AnnotationExec(s, T_jsx)

\* a pattern for the lower-case spelling only
XcssRegexTestLowerCase(code) ==
  \E i \in 1..Len(code) :
     /\ code[i] = "x"
     /\ StartsWithAt(code, i + 1, T_css_eq_brace)

\* index.ts:147  /(x|X)css={/.test(file.code)
XcssRegexTest(code) ==
  \E i \in 1..Len(code) :
     /\ code[i] \in {"x", "X"}
     /\ StartsWithAt(code, i + 1, T_css_eq_brace)

(***************************************************************************)
(* The syntax tree.  A file's body is the sequence of the nodes the         *)
(* visitor has hooks for, in depth-first (source) order.                    *)
(***************************************************************************)
\* index.ts:245  the five API names
Apis == {"styled", "ClassNames", "css", "keyframes", "cssMap"}

ImportSpecifier(imported, local) ==
  [type |-> "ImportSpecifier", imported |-> imported, local |-> local]
ImportDefaultSpecifier(local) ==
  [type |-> "ImportDefaultSpecifier", imported |-> "default", local |-> local]

ImportDeclarationNode(source, specifiers) ==
  [kind |-> "ImportDeclaration", source |-> source, specifiers |-> specifiers,
   shape |-> "none", callee |-> ""]

\* shape "identifier": f(...) or f`...`; "member": f.x(...) or f.x`...`;
\* "composite": f(X)(...) or f(X)`...`.  callee is the identifier f.
CallExpressionNode(shape, callee) ==
  [kind |-> "CallExpression", source |-> << >>, specifiers |-> << >>,
   shape |-> shape, callee |-> callee]
TaggedTemplateExpressionNode(shape, callee) ==
  [kind |-> "TaggedTemplateExpression", source |-> << >>, specifiers |-> << >>,
   shape |-> shape, callee |-> callee]
JSXElementNode ==
  [kind |-> "JSXElement", source |-> << >>, specifiers |-> << >>,
   shape |-> "none", callee |-> ""]
JSXOpeningElementNode ==
  [kind |-> "JSXOpeningElement", source |-> << >>, specifiers |-> << >>,
   shape |-> "none", callee |-> ""]

\* state.compiledImports: undefined, or the record of local names ("" = not set)
NoCompiledImports == [defined |-> FALSE, names |-> [a \in Apis |-> ""]]
EmptyCompiledImports == [defined |-> TRUE, names |-> [a \in Apis |-> ""]]

(***************************************************************************)
(* utils/is-compiled: whether a call/template node is a use of an API,      *)
(* decided from the recorded local names and the node's shape.              *)
(***************************************************************************)
IsLocal(ci, api, name) == ci.defined /\ ci.names[api] # "" /\ ci.names[api] = name

isCompiledCSSTaggedTemplateExpression(node, ci) ==
  node.kind = "TaggedTemplateExpression" /\ node.shape = "identifier"
    /\ IsLocal(ci, "css", node.callee)
isCompiledCSSCallExpression(node, ci) ==
  node.kind = "CallExpression" /\ node.shape = "identifier"
    /\ IsLocal(ci, "css", node.callee)
isCompiledKeyframesTaggedTemplateExpression(node, ci) ==
  node.kind = "TaggedTemplateExpression" /\ node.shape = "identifier"
    /\ IsLocal(ci, "keyframes", node.callee)
isCompiledKeyframesCallExpression(node, ci) ==
  node.kind = "CallExpression" /\ node.shape = "identifier"
    /\ IsLocal(ci, "keyframes", node.callee)
isCompiledStyledTaggedTemplateExpression(node, ci) ==
  node.kind = "TaggedTemplateExpression" /\ node.shape \in {"member", "composite"}
    /\ IsLocal(ci, "styled", node.callee)
isCompiledStyledCallExpression(node, ci) ==
  node.kind = "CallExpression" /\ node.shape \in {"member", "composite"}
    /\ IsLocal(ci, "styled", node.callee)
isCompiledCSSMapCallExpression(node, ci) ==
  node.kind = "CallExpression" /\ node.shape = "identifier"
    /\ IsLocal(ci, "cssMap", node.callee)

(***************************************************************************)
(* @compiled/utils unique: the distinct elements, in order of first         *)
(* occurrence.                                                             *)
(***************************************************************************)
RECURSIVE UniqueFrom(_, _)
UniqueFrom(seq, seen) ==
  IF Len(seq) = 0 THEN << >>
  ELSE IF Head(seq) \in seen THEN UniqueFrom(Tail(seq), seen)
  ELSE <<Head(seq)>> \o UniqueFrom(Tail(seq), seen \cup {Head(seq)})

unique(seq) == UniqueFrom(seq, {})

(***************************************************************************)
(* State.                                                                  *)
(***************************************************************************)
NumSlots == 2
\* the file compilations one process may have under way
Slots == 1..NumSlots

VARIABLES
  globalCache,  \* index.ts:67  let globalCache (0: undefined), else a cache id
  caches,       \* the Cache instances created so far; an id is an index
  pc,           \* per compilation: idle, pre, visit, done, aborted
  opts,         \* per compilation: this.opts
  file,         \* per compilation: filename, comments, raw code, parsed body
  state,        \* per compilation: the plugin pass (this / state)
  tree,         \* per compilation: the body, node by node, with each node's fate
  idx,          \* per compilation: the traversal cursor into tree
  output,       \* per compilation: statements and comments finalization added
  calls,        \* per compilation: the external handlers invoked, in order
  notified,     \* per compilation: the arguments onIncludedFiles was called with
  applied,      \* per compilation: the cleanup actions applied, in order
  thrown        \* per compilation: the error that left it ("": none)

vars == <<globalCache, caches, pc, opts, file, state, tree, idx, output, calls,
          notified, applied, thrown>>

\* the host's working directory (this.cwd)
cwd == <<"/", "w">>

NoOpts ==
  [cache |-> "unset", importSources |-> << >>, resolver |-> "unset",
   onIncludedFiles |-> "unset", importReact |-> "unset", processXcss |-> "unset",
   root |-> << >>]

\* body is the file as parsed (file.ast.program.body), kept as it was
NoFile == [filename |-> << >>, comments |-> << >>, code |-> << >>,
           body |-> << >>, TEST_PKG_VERSION |-> ""]

NoState ==
  [cache |-> 0, includedFiles |-> << >>, pathsToCleanup |-> << >>,
   pragma |-> [jsxImportSource |-> FALSE, jsx |-> FALSE], usesXcss |-> FALSE,
   importSources |-> << >>, resolver |-> "unset",
   compiledImports |-> NoCompiledImports]

NoOutput == [body |-> << >>, comments |-> << >>]

Init ==
  /\ globalCache = 0
  /\ caches = << >>
  /\ pc = [c \in Slots |-> "idle"]
  /\ opts = [c \in Slots |-> NoOpts]
  /\ file = [c \in Slots |-> NoFile]
  /\ state = [c \in Slots |-> NoState]
  /\ tree = [c \in Slots |-> << >>]
  /\ idx = [c \in Slots |-> 0]
  /\ output = [c \in Slots |-> NoOutput]
  /\ calls = [c \in Slots |-> << >>]
  /\ notified = [c \in Slots |-> << >>]
  /\ applied = [c \in Slots |-> << >>]
  /\ thrown = [c \in Slots |-> ""]

(***************************************************************************)
(* pre (index.ts:75-119).                                                  *)
(***************************************************************************)
\* index.ts:76  state.opts.root ?? this.cwd
rootPath(o) == IF o.root = << >> THEN cwd ELSE o.root

\* a pre that hands every compilation the module-level instance once it exists
SelectCacheReusingGlobal(o, gc, heap) ==
  [id |-> IF gc # 0 THEN gc ELSE Len(heap) + 1, fresh |-> gc = 0, global |-> TRUE]

\* index.ts:82-87  the cache of a compilation: the id it gets and whether that
\* instance is created now
SelectCache(o, gc, heap) ==
  [id |-> Len(heap) + 1, fresh |-> TRUE, global |-> o.cache = "true"]

\* index.ts:96-108
importSourcesOf(o) ==
  <<DEFAULT_IMPORT_SOURCE>> \o
  [i \in 1..Len(o.importSources) |->
     LET origin == o.importSources[i]
     IN IF Len(origin) > 0 /\ origin[1] = "."
          THEN join(rootPath(o), origin)
        ELSE origin]

\* utils/cache Cache.initialize({ ...this.opts, cache: !!this.opts.cache })
NewCache(o) == [initialized |-> 1, options |-> [cache |-> o.cache = "true"],
                entries |-> {}]

\* index.ts:112-115  require(require.resolve(this.opts.resolver, ...)) throws
\* when the specifier names no module
ResolverLoadFails(o) == o.resolver = "missing"

Pre(c, Inputs) ==
  /\ pc[c] = "idle"
  /\ \E input \in Inputs :
       LET o == input.opts
           sel == SelectCache(o, globalCache, caches)
           loadFails == ResolverLoadFails(o)
       IN /\ opts' = [opts EXCEPT ![c] = o]
          /\ file' = [file EXCEPT ![c] = input.file]
          /\ tree' = [tree EXCEPT ![c] =
                        [i \in 1..Len(input.file.body) |->
                           [node |-> input.file.body[i], status |-> "present"]]]
          /\ globalCache' = IF sel.global THEN sel.id ELSE globalCache
          /\ caches' = IF sel.fresh
                         THEN Append(caches, NewCache(o))
                       ELSE [caches EXCEPT ![sel.id].initialized = @ + 1]
          /\ state' = [state EXCEPT ![c] =
                         [NoState EXCEPT
                            !.cache = sel.id,
                            !.importSources = importSourcesOf(o),
                            !.resolver = IF loadFails THEN "unset" ELSE o.resolver]]
          \* index.ts:113  require(require.resolve(...)) throws for a bad specifier
          /\ pc' = [pc EXCEPT ![c] = IF loadFails THEN "aborted" ELSE "pre"]
          /\ thrown' = [thrown EXCEPT ![c] = IF loadFails THEN "require" ELSE @]
  /\ UNCHANGED <<idx, output, calls, notified, applied>>

(***************************************************************************)
(* Program.enter (index.ts:122-151).                                       *)
(***************************************************************************)
\* a test that accepts whatever token follows @jsx
IsJsxPragmaAnyToken(jsxMatches) == jsxMatches.matched

\* index.ts:138  jsxMatches && jsxMatches[1] === 'jsx'
IsJsxPragma(jsxMatches) == jsxMatches.matched /\ jsxMatches.group = T_jsxToken

\* index.ts:132  jsxSourceMatches && jsxSourceMatches[1] === DEFAULT_IMPORT_SOURCE
IsJsxImportSourcePragma(jsxSourceMatches) ==
  jsxSourceMatches.matched /\ jsxSourceMatches.group = DEFAULT_IMPORT_SOURCE

\* a loop in which every matching comment decides the flag anew
FlagAfterLastMatch(flag, matched, hit) == IF matched THEN hit ELSE flag

\* index.ts:132-140  a pragma flag after one comment: the loop only ever
\* assigns true
FlagAfter(flag, matched, hit) == flag \/ hit

RECURSIVE ScanComments(_, _)
\* index.ts:126-141  the loop over file.ast.comments; acc is
\* [compiledImports, pragma]
ScanComments(comments, acc) ==
  IF Len(comments) = 0 THEN acc
  ELSE LET comment == Head(comments)
           jsxSourceMatches == JSX_SOURCE_ANNOTATION_REGEX(comment)
           jsxMatches == JSX_ANNOTATION_REGEX(comment)
           src == IsJsxImportSourcePragma(jsxSourceMatches)
           jsx == IsJsxPragma(jsxMatches)
       IN ScanComments(Tail(comments),
            [compiledImports |-> IF src THEN EmptyCompiledImports
                                 ELSE acc.compiledImports,
             pragma |->
               [jsxImportSource |-> FlagAfter(acc.pragma.jsxImportSource,
                                              jsxSourceMatches.matched, src),
                jsx |-> FlagAfter(acc.pragma.jsx, jsxMatches.matched, jsx)]])

\* a scan that does not read the processXcss option
FoundXcssUngated(o, code) == XcssRegexTest(code)

\* index.ts:145-147  (state.opts.processXcss ?? true) && /(x|X)css={/.test(file.code)
FoundXcss(o, code) == o.processXcss # "false" /\ XcssRegexTest(code)

ProgramEnter(c) ==
  /\ pc[c] = "pre"
  /\ LET scanned == ScanComments(file[c].comments,
                      [compiledImports |-> state[c].compiledImports,
                       pragma |-> state[c].pragma])
     IN state' = [state EXCEPT
                    ![c].compiledImports = scanned.compiledImports,
                    ![c].pragma = scanned.pragma,
                    ![c].usesXcss = IF FoundXcss(opts[c], file[c].code)
                                      THEN TRUE ELSE @]
  /\ idx' = [idx EXCEPT ![c] = 1]
  /\ pc' = [pc EXCEPT ![c] = "visit"]
  /\ UNCHANGED <<globalCache, caches, opts, file, tree, output, calls, notified,
                 applied, thrown>>

(***************************************************************************)
(* The external extraction handlers (visitCssMapPath, visitStyledPath,      *)
(* visitClassNamesPath, visitXcssPropPath, visitCssPropPath).  The core     *)
(* hands them the state; what one invocation does with it is its effect:    *)
(* nothing, resolving an included file, queueing the removal of the node,   *)
(* storing a cache entry, or raising an error.  A context is                *)
(* [state, caches, calls, thrown].                                         *)
(***************************************************************************)
\* the included files one compilation resolves, at most
MaxIncluded == 3

IncludedFileOf(effect) == IF effect = "include_a" THEN "a.css" ELSE "b.css"

IsQueued(st, id) ==
  \E k \in 1..Len(st.pathsToCleanup) : st.pathsToCleanup[k].path = id

\* the node a handler queues for removal: the node it was handed ("remove"),
\* or the first markup node of the file not queued yet ("remove_first");
\* 0 when there is none
RemoveTarget(ctx, c, id, effect) ==
  LET free == { i \in 1..Len(tree[c]) :
                  /\ tree[c][i].node.kind \in {"JSXElement", "JSXOpeningElement"}
                  /\ ~IsQueued(ctx.state, i) }
  IN IF effect = "remove" THEN (IF IsQueued(ctx.state, id) THEN 0 ELSE id)
     ELSE IF effect = "remove_first" /\ free # {}
       THEN CHOOSE i \in free : \A j \in free : i <= j
     ELSE 0

Invoke(ctx, c, handler, id, effect) ==
  IF ctx.thrown THEN ctx
  ELSE [state |->
          IF effect \in {"include_a", "include_b"}
               /\ Len(ctx.state.includedFiles) < MaxIncluded
            THEN [ctx.state EXCEPT
                    !.includedFiles = Append(@, IncludedFileOf(effect))]
          ELSE IF RemoveTarget(ctx, c, id, effect) # 0
            THEN [ctx.state EXCEPT
                    !.pathsToCleanup =
                       Append(@, [path |-> RemoveTarget(ctx, c, id, effect),
                                  action |-> "remove"])]
          ELSE ctx.state,
        caches |->
          IF effect = "store"
            THEN [ctx.caches EXCEPT ![ctx.state.cache].entries = @ \cup {c}]
          ELSE ctx.caches,
        calls |-> Append(ctx.calls, [handler |-> handler, node |-> id]),
        thrown |-> effect = "throw"]

Context(c) == [state |-> state[c], caches |-> caches, calls |-> calls[c],
               thrown |-> FALSE]

\* a hook that catches the error of a handler and lets the traversal go on
CommitCatchingError(c, ctx) ==
  /\ state' = [state EXCEPT ![c] = ctx.state]
  /\ caches' = ctx.caches
  /\ calls' = [calls EXCEPT ![c] = ctx.calls]
  /\ pc' = pc
  /\ idx' = [idx EXCEPT ![c] = @ + 1]
  /\ thrown' = [thrown EXCEPT ![c] =
                  IF ctx.thrown THEN ctx.calls[Len(ctx.calls)].handler ELSE @]

\* a hook whose state is one object of the module, not one per compilation
CommitToModuleState(c, ctx) ==
  /\ state' = [d \in Slots |-> ctx.state]
  /\ caches' = ctx.caches
  /\ calls' = [calls EXCEPT ![c] = ctx.calls]
  /\ pc' = [pc EXCEPT ![c] = IF ctx.thrown THEN "aborted" ELSE @]
  /\ idx' = [idx EXCEPT ![c] = IF ctx.thrown THEN @ ELSE @ + 1]
  /\ thrown' = [thrown EXCEPT ![c] =
                  IF ctx.thrown THEN ctx.calls[Len(ctx.calls)].handler ELSE @]

\* the step of a visitor hook that ends in context ctx: an error raised by a
\* handler is not caught and ends the compilation
Commit(c, ctx) ==
  /\ state' = [state EXCEPT ![c] = ctx.state]
  /\ caches' = ctx.caches
  /\ calls' = [calls EXCEPT ![c] = ctx.calls]
  /\ pc' = [pc EXCEPT ![c] = IF ctx.thrown THEN "aborted" ELSE @]
  /\ idx' = [idx EXCEPT ![c] = IF ctx.thrown THEN @ ELSE @ + 1]
  /\ thrown' = [thrown EXCEPT ![c] =
                  IF ctx.thrown THEN ctx.calls[Len(ctx.calls)].handler ELSE @]

Visiting(c, kinds) ==
  /\ pc[c] = "visit"
  /\ idx[c] <= Len(tree[c])
  /\ tree[c][idx[c]].node.kind \in kinds

(***************************************************************************)
(* ImportDeclaration (index.ts:210-261).                                   *)
(***************************************************************************)
\* index.ts:213-229
isCompiledModule(userLandModule, importSources, filename) ==
  \E i \in 1..Len(importSources) :
     LET compiledModuleOrigin == importSources[i]
     IN IF userLandModule = DEFAULT_IMPORT_SOURCE
             \/ compiledModuleOrigin = userLandModule
          THEN TRUE
        ELSE IF /\ Len(filename) > 0
                /\ Len(userLandModule) > 0
                /\ userLandModule[1] = "."
                /\ EndsWith(userLandModule, basename(compiledModuleOrigin))
          THEN resolve(dirname(filename), userLandModule) = compiledModuleOrigin
        ELSE FALSE

\* index.ts:245-250  the specifier names one of the five APIs
IsApiSpecifier(specifier) ==
  specifier.type = "ImportSpecifier" /\ specifier.imported \in Apis

\* index.ts:252  the name recorded for an API specifier
RecordedName(specifier) == specifier.local

RECURSIVE RecordSpecifiers(_, _)
\* index.ts:239-256  the local names after the loop over the specifiers
RecordSpecifiers(specifiers, names) ==
  IF Len(specifiers) = 0 THEN names
  ELSE LET specifier == Head(specifiers)
       IN RecordSpecifiers(Tail(specifiers),
            IF IsApiSpecifier(specifier)
              THEN [names EXCEPT ![specifier.imported] = RecordedName(specifier)]
            ELSE names)

\* index.ts:253  specifier.remove(): the specifiers left on the declaration
RemainingSpecifiers(specifiers) ==
  SelectSeq(specifiers, LAMBDA sp : ~IsApiSpecifier(sp))

ImportDeclaration(c) ==
  /\ Visiting(c, {"ImportDeclaration"})
  /\ LET id == idx[c]
         node == tree[c][id].node
         recognized == isCompiledModule(node.source, state[c].importSources,
                                        file[c].filename)
         left == RemainingSpecifiers(node.specifiers)
     IN IF ~recognized
          THEN UNCHANGED <<state, tree>>
        ELSE /\ state' = [state EXCEPT ![c].compiledImports =
                            [defined |-> TRUE,
                             names |-> RecordSpecifiers(node.specifiers, @.names)]]
             /\ tree' = [tree EXCEPT ![c][id] =
                           [node |-> [node EXCEPT !.specifiers = left],
                            status |-> IF Len(left) = 0 THEN "removed"
                                       ELSE "present"]]
  /\ idx' = [idx EXCEPT ![c] = @ + 1]
  /\ UNCHANGED <<globalCache, caches, pc, opts, file, output, calls, notified,
                 applied, thrown>>

(***************************************************************************)
(* TaggedTemplateExpression|CallExpression (index.ts:262-300).             *)
(***************************************************************************)
\* a test that also takes a keyframes construct for one with styles
hasStylesOrKeyframes(node, ci) ==
  \/ isCompiledCSSTaggedTemplateExpression(node, ci)
  \/ isCompiledStyledTaggedTemplateExpression(node, ci)
  \/ isCompiledCSSCallExpression(node, ci)
  \/ isCompiledStyledCallExpression(node, ci)
  \/ isCompiledKeyframesTaggedTemplateExpression(node, ci)
  \/ isCompiledKeyframesCallExpression(node, ci)

\* index.ts:271-275
hasStyles(node, ci) ==
  \/ isCompiledCSSTaggedTemplateExpression(node, ci)
  \/ isCompiledStyledTaggedTemplateExpression(node, ci)
  \/ isCompiledCSSCallExpression(node, ci)
  \/ isCompiledStyledCallExpression(node, ci)

\* index.ts:281-285
isCompiledUtil(node, ci) ==
  \/ isCompiledCSSTaggedTemplateExpression(node, ci)
  \/ isCompiledKeyframesTaggedTemplateExpression(node, ci)
  \/ isCompiledCSSCallExpression(node, ci)
  \/ isCompiledKeyframesCallExpression(node, ci)

\* index.ts:292-294
isCompiledComponent(node, ci) ==
  \/ isCompiledStyledTaggedTemplateExpression(node, ci)
  \/ isCompiledStyledCallExpression(node, ci)

\* a dispatcher that replaces the node at once
StatusWhenReplacedAtOnce(status) == "null"

\* index.ts:288  what the dispatcher does to the tree when it queues a node: nothing
StatusWhenQueued(status) == status

CallExpression(c, Effects) ==
  /\ Visiting(c, {"TaggedTemplateExpression", "CallExpression"})
  /\ \E effect \in Effects :
       LET id == idx[c]
           node == tree[c][id].node
           ci == state[c].compiledImports
           start == Context(c)
           normalized ==
             IF hasStyles(node, ci)
               THEN [start EXCEPT !.calls =
                       Append(@, [handler |-> "normalizePropsUsage", node |-> id])]
             ELSE start
       IN IF isCompiledCSSMapCallExpression(node, ci)
            THEN /\ Commit(c, Invoke(start, c, "visitCssMapPath", id, effect))
                 /\ UNCHANGED tree
          ELSE IF isCompiledUtil(node, ci)
            THEN /\ Commit(c, [normalized EXCEPT !.state.pathsToCleanup =
                                 Append(@, [path |-> id, action |-> "replace"])])
                 /\ tree' = [tree EXCEPT ![c][id].status = StatusWhenQueued(@)]
          ELSE IF isCompiledComponent(node, ci)
            THEN /\ Commit(c, Invoke(normalized, c, "visitStyledPath", id, effect))
                 /\ UNCHANGED tree
          ELSE /\ Commit(c, normalized)
               /\ UNCHANGED tree
  /\ UNCHANGED <<globalCache, opts, file, output, notified, applied>>

(***************************************************************************)
(* JSXElement (index.ts:301-307) and JSXOpeningElement (index.ts:308-316). *)
(***************************************************************************)
\* index.ts:302  state.compiledImports?.ClassNames
ShouldVisitClassNames(st) ==
  st.compiledImports.defined /\ st.compiledImports.names["ClassNames"] # ""

JSXElement(c, Effects) ==
  /\ Visiting(c, {"JSXElement"})
  /\ \E effect \in Effects :
       IF ShouldVisitClassNames(state[c])
         THEN Commit(c, Invoke(Context(c), c, "visitClassNamesPath", idx[c], effect))
       ELSE Commit(c, Context(c))
  /\ UNCHANGED <<globalCache, opts, file, tree, output, notified, applied>>

\* a first check that does not read the flag
ShouldVisitXcssPropAlways(st) == TRUE

\* index.ts:309  state.usesXcss
ShouldVisitXcssProp(st) == st.usesXcss

\* a second check that is the else-branch of the first
ShouldVisitCssPropOtherwise(st) == st.compiledImports.defined /\ ~st.usesXcss

\* index.ts:313  state.compiledImports
ShouldVisitCssProp(st) == st.compiledImports.defined

JSXOpeningElement(c, Effects) ==
  /\ Visiting(c, {"JSXOpeningElement"})
  /\ \E e1 \in Effects, e2 \in Effects :
       LET start == Context(c)
           afterXcss == IF ShouldVisitXcssProp(start.state)
                          THEN Invoke(start, c, "visitXcssPropPath", idx[c], e1)
                        ELSE start
           \* an error raised by the first handler leaves the hook
           afterCss == IF ~afterXcss.thrown /\ ShouldVisitCssProp(afterXcss.state)
                         THEN Invoke(afterXcss, c, "visitCssPropPath", idx[c], e2)
                       ELSE afterXcss
       IN Commit(c, afterCss)
  /\ UNCHANGED <<globalCache, opts, file, tree, output, notified, applied>>

(***************************************************************************)
(* Program.exit (index.ts:152-208).                                        *)
(***************************************************************************)
\* an exit without its gate
ShouldFinalizeAlways(st) == TRUE

\* index.ts:153  the gate: finalization runs
ShouldFinalize(st) == st.compiledImports.defined \/ st.usesXcss

\* path.scope.getBinding(name): a declaration of the body binds name.  The
\* declarations of the model are the import specifiers still in the tree.
getBinding(body, name) ==
  \E i \in 1..Len(body) :
     /\ body[i].status = "present"
     /\ body[i].node.kind = "ImportDeclaration"
     /\ \E k \in 1..Len(body[i].node.specifiers) :
           body[i].node.specifiers[k].local = name

\* an exit that does not read the importReact option
shouldImportReactIgnored(o) == TRUE

\* index.ts:159  opts: { importReact: shouldImportReact = true }
shouldImportReact(o) == o.importReact # "false"

\* index.ts:166-168
ShouldInsertReact(st, o, body) ==
  LET hasPragma == st.pragma.jsxImportSource \/ st.pragma.jsx
  IN ~hasPragma /\ shouldImportReact(o) /\ ~getBinding(body, "React")

\* an exit that does not look for a forwardRef binding
ShouldInsertForwardRefUnscoped(st, body) ==
  st.compiledImports.defined /\ st.compiledImports.names["styled"] # ""

\* index.ts:173
ShouldInsertForwardRef(st, body) ==
  /\ st.compiledImports.defined
  /\ st.compiledImports.names["styled"] # ""
  /\ ~getBinding(body, "forwardRef")

\* index.ts:178-181  the provenance comment
packageJson == [name |-> "@compiled/babel-plugin", version |-> "packaged"]

ProvenanceComment(f) ==
  [filename |-> IF Len(basename(f.filename)) = 0 THEN T_File
                ELSE basename(f.filename),
   name |-> packageJson.name,
   version |-> IF f.TEST_PKG_VERSION # "" THEN f.TEST_PKG_VERSION
               ELSE packageJson.version]

\* an exit that calls back without looking at the list
ShouldNotifyUnchecked(st, o) == o.onIncludedFiles = "callback"

\* index.ts:187
ShouldNotify(st, o) == Len(st.includedFiles) > 0 /\ o.onIncludedFiles = "callback"

\* index.ts:193-206  one cleanup action on the body
Clean(body, clean) ==
  IF clean.action = "remove" THEN [body EXCEPT ![clean.path].status = "removed"]
  ELSE IF clean.action = "replace" THEN [body EXCEPT ![clean.path].status = "null"]
  ELSE body

\* a cleanup that takes the queue from its end
CleanupOrderReversed(queue) ==
  [k \in 1..Len(queue) |-> queue[Len(queue) + 1 - k]]

\* index.ts:192  the order pathsToCleanup.forEach visits the queue in
CleanupOrder(queue) == queue

RECURSIVE CleanAll(_, _)
CleanAll(body, queue) ==
  IF Len(queue) = 0 THEN body
  ELSE CleanAll(Clean(body, Head(queue)), Tail(queue))

ProgramExit(c) ==
  /\ pc[c] = "visit"
  /\ idx[c] > Len(tree[c])
  /\ pc' = [pc EXCEPT ![c] = "done"]
  /\ IF ~ShouldFinalize(state[c])
       THEN UNCHANGED <<tree, output, calls, notified, applied>>
     ELSE LET st == state[c]
              react == IF ShouldInsertReact(st, opts[c], tree[c])
                         THEN <<"import * as React from 'react'">> ELSE << >>
              forwardRef == IF ShouldInsertForwardRef(st, tree[c])
                              THEN <<"import { forwardRef } from 'react'">>
                            ELSE << >>
              order == CleanupOrder(st.pathsToCleanup)
          IN /\ calls' = [calls EXCEPT ![c] =
                            @ \o <<[handler |-> "preserveLeadingComments", node |-> 0],
                                   [handler |-> "appendRuntimeImports", node |-> 0]>>]
             \* unshiftContainer puts each statement in front of the earlier ones
             /\ output' = [output EXCEPT ![c] =
                             [body |-> <<"noop">> \o forwardRef \o react \o @.body,
                              comments |-> <<ProvenanceComment(file[c])>> \o @.comments]]
             /\ notified' = [notified EXCEPT ![c] =
                               IF ShouldNotify(st, opts[c])
                                 THEN Append(@, unique(st.includedFiles))
                               ELSE @]
             /\ tree' = [tree EXCEPT ![c] = CleanAll(@, order)]
             /\ applied' = [applied EXCEPT ![c] = @ \o order]
  /\ UNCHANGED <<globalCache, caches, opts, file, state, idx, thrown>>

(***************************************************************************)
(* Specifications.  A specification runs the compilations of a set of       *)
(* slots over a universe of inputs (options, file, body) and of handler     *)
(* effects.                                                                *)
(***************************************************************************)
NextOver(S, Inputs, Effects) ==
  \E c \in S :
     \/ Pre(c, Inputs)
     \/ ProgramEnter(c)
     \/ ImportDeclaration(c)
     \/ CallExpression(c, Effects)
     \/ JSXElement(c, Effects)
     \/ JSXOpeningElement(c, Effects)
     \/ ProgramExit(c)

(***************************************************************************)
(* Inputs.                                                                 *)
(***************************************************************************)
MaxItems == 3

RECURSIVE Flatten(_)
Flatten(items) ==
  IF Len(items) = 0 THEN << >> ELSE Head(items) \o Flatten(Tail(items))

\* the local names the import declarations of a body declare
LocalNames(body) ==
  { body[i].specifiers[k].local :
      i \in { j \in 1..Len(body) : body[j].kind = "ImportDeclaration" },
      k \in 1..3 } \ {""}

\* a file declares no name twice (the parser rejects a duplicate declaration)
NoDuplicateDeclaration(body) ==
  \A i, j \in 1..Len(body) :
    \A k \in 1..Len(body[i].specifiers), l \in 1..Len(body[j].specifiers) :
       (i # j \/ k # l) => body[i].specifiers[k].local # body[j].specifiers[l].local

\* the bodies of at most MaxItems items (an item is a statement, or a JSX
\* element with its opening element)
Bodies(Items) ==
  { body \in { Flatten(items) :
                 items \in UNION { [1..n -> Items] : n \in 0..MaxItems } } :
      NoDuplicateDeclaration(body) }

T_filename == <<"/", "w", "/", "a", ".", "j", "s">>
T_xcssCode == <<"<", "a", " ", "x", "c", "s", "s", "=", "{", "s", "}", "/", ">">>
T_plainCode == <<"<", "a", "/", ">">>

JSXItem == <<JSXElementNode, JSXOpeningElementNode>>

\* import { css as a }, { css, x }, { keyframes, styled as s },
\* { cssMap, ClassNames } from '@compiled/react'; import { css } from 'react';
\* a`...`, css(...), keyframes`...`, s.div`...`, cssMap(...); <a/>
DispatchItems ==
  { <<ImportDeclarationNode(DEFAULT_IMPORT_SOURCE, <<ImportSpecifier("css", "a")>>)>>,
    <<ImportDeclarationNode(DEFAULT_IMPORT_SOURCE,
        <<ImportSpecifier("css", "css"), ImportSpecifier("x", "x")>>)>>,
    <<ImportDeclarationNode(DEFAULT_IMPORT_SOURCE,
        <<ImportSpecifier("keyframes", "keyframes"), ImportSpecifier("styled", "s")>>)>>,
    <<ImportDeclarationNode(DEFAULT_IMPORT_SOURCE,
        <<ImportSpecifier("cssMap", "cssMap"),
          ImportSpecifier("ClassNames", "ClassNames")>>)>>,
    <<ImportDeclarationNode(T_react, <<ImportSpecifier("css", "css")>>)>>,
    <<TaggedTemplateExpressionNode("identifier", "a")>>,
    <<CallExpressionNode("identifier", "css")>>,
    <<TaggedTemplateExpressionNode("identifier", "keyframes")>>,
    <<TaggedTemplateExpressionNode("member", "s")>>,
    <<CallExpressionNode("identifier", "cssMap")>>,
    JSXItem }

DispatchInputs ==
  { [opts |-> NoOpts,
     file |-> [NoFile EXCEPT !.filename = T_filename, !.code = code,
                             !.body = body]] :
      code \in {T_plainCode, T_xcssCode}, body \in Bodies(DispatchItems) }

DispatchEffects == {"none", "remove", "remove_first", "throw"}

\* one compilation at a time: babel runs pre, the traversal and the exit of a
\* file synchronously
Next == NextOver({1}, DispatchInputs, DispatchEffects)

Spec == Init /\ [][Next]_vars

(***************************************************************************)
(* The finalization universe: the options and pragmas the exit reads.       *)
(***************************************************************************)
T_sourcePragma == <<" ">> \o T_jsxImportSource \o <<" ">> \o DEFAULT_IMPORT_SOURCE \o <<" ">>
T_jsxPragma == <<" ">> \o T_jsx \o <<" ">> \o T_jsxToken \o <<" ">>

\* import { styled as s, ClassNames } from '@compiled/react';
\* import React from 'react'; s.div`...`; <a/>
FinalItems ==
  { <<ImportDeclarationNode(DEFAULT_IMPORT_SOURCE,
        <<ImportSpecifier("styled", "s"), ImportSpecifier("ClassNames", "ClassNames")>>)>>,
    <<ImportDeclarationNode(T_react, <<ImportDefaultSpecifier("React")>>)>>,
    <<TaggedTemplateExpressionNode("member", "s")>>,
    JSXItem }

\* processXcss with the raw code it is tried on
XcssCases ==
  { <<"unset", T_plainCode>>, <<"unset", T_xcssCode>>, <<"true", T_xcssCode>>,
    <<"false", T_xcssCode>> }

FinalInputs ==
  { [opts |-> [NoOpts EXCEPT !.importReact = importReact, !.processXcss = x[1]],
     file |-> [NoFile EXCEPT !.filename = T_filename, !.code = x[2],
                             !.comments = comments, !.body = body]] :
      importReact \in {"unset", "true", "false"}, x \in XcssCases,
      comments \in {<< >>, <<T_sourcePragma>>, <<T_jsxPragma>>},
      body \in Bodies(FinalItems) }

FinalEffects == {"none", "throw"}

NextFinal == NextOver({1}, FinalInputs, FinalEffects)

SpecFinal == Init /\ [][NextFinal]_vars

(***************************************************************************)
(* The included-files universe: handlers that resolve included files, and   *)
(* the onIncludedFiles callback.                                           *)
(***************************************************************************)
NotifyItems ==
  { <<ImportDeclarationNode(DEFAULT_IMPORT_SOURCE,
        <<ImportSpecifier("styled", "s"), ImportSpecifier("ClassNames", "ClassNames")>>)>>,
    <<TaggedTemplateExpressionNode("member", "s")>>,
    JSXItem }

NotifyInputs ==
  { [opts |-> [NoOpts EXCEPT !.onIncludedFiles = callback],
     file |-> [NoFile EXCEPT !.code = code, !.body = body]] :
      callback \in {"unset", "callback"}, code \in {T_plainCode, T_xcssCode},
      body \in Bodies(NotifyItems) }

NotifyEffects == {"none", "include_a", "include_b"}

NextNotify == NextOver({1}, NotifyInputs, NotifyEffects)

SpecNotify == Init /\ [][NextNotify]_vars

(***************************************************************************)
(* The cache universe: several compilations of one process, each with its   *)
(* own cache option, whose handlers store cache entries.                    *)
(***************************************************************************)
CacheBody ==
  <<ImportDeclarationNode(DEFAULT_IMPORT_SOURCE, <<ImportSpecifier("styled", "s")>>),
    TaggedTemplateExpressionNode("member", "s"),
    JSXElementNode, JSXOpeningElementNode>>

CacheInputs ==
  { [opts |-> [NoOpts EXCEPT !.cache = cache],
     file |-> [NoFile EXCEPT !.body = CacheBody]] :
      cache \in {"unset", "true", "false"} }

CacheEffects == {"none", "store"}

NextCache == NextOver(Slots, CacheInputs, CacheEffects)

SpecCache == Init /\ [][NextCache]_vars

(***************************************************************************)
(* The module-origin universe: import specifiers, configured origins,       *)
(* roots and file names.                                                   *)
(***************************************************************************)
T_lib == <<"l", "i", "b">>
T_dotLib == <<".", "/">> \o T_lib
T_upLib == <<".", ".", "/">> \o T_lib
T_upLibSlash == T_upLib \o <<"/">>
T_dotMylib == <<".", "/", "m", "y">> \o T_lib
T_dot == <<".">>
T_wLib == cwd \o <<"/">> \o T_lib
T_root == <<"/", "r">>
T_srcFile == cwd \o <<"/", "s", "r", "c", "/", "a", ".", "j", "s">>
T_libFile == cwd \o <<"/">> \o T_lib \o <<"/", "a", ".", "j", "s">>

PathSpecifiers ==
  { DEFAULT_IMPORT_SOURCE, T_lib, T_dotLib, T_upLib, T_upLibSlash, T_dotMylib,
    T_dot, T_wLib }

PathInputs ==
  { [opts |-> [NoOpts EXCEPT !.importSources = sources, !.root = root],
     file |-> [NoFile EXCEPT
                 !.filename = filename,
                 !.body = <<ImportDeclarationNode(specifier,
                              <<ImportSpecifier("css", "css")>>),
                            CallExpressionNode("identifier", "css"),
                            JSXElementNode, JSXOpeningElementNode>>]] :
      sources \in {<< >>, <<T_dotLib>>, <<T_lib>>},
      root \in {<< >>, T_root},
      filename \in {<< >>, T_srcFile, T_libFile},
      specifier \in PathSpecifiers }

PathEffects == {"none"}

NextPaths == NextOver({1}, PathInputs, PathEffects)

SpecPaths == Init /\ [][NextPaths]_vars

(***************************************************************************)
(* The pragma universe: files with several comments, each a source          *)
(* annotation, a generic annotation or neither.                            *)
(***************************************************************************)
MaxComments == 2

T_otherSourcePragma == <<" ">> \o T_jsxImportSource \o <<" ", "p", " ">>
T_hPragma == <<"*", " ">> \o T_jsx \o <<" ", "h">>
T_plainComment == <<" ">> \o T_jsx \o <<"s", " ", "x">>
\* one comment with two annotations; exec returns the leftmost
T_twoPragmas == T_hPragma \o T_jsxPragma

PragmaComments ==
  { T_sourcePragma, T_otherSourcePragma, T_jsxPragma, T_hPragma, T_plainComment,
    T_twoPragmas }

PragmaBodies ==
  { << >>,
    JSXItem,
    <<ImportDeclarationNode(DEFAULT_IMPORT_SOURCE, <<ImportSpecifier("css", "css")>>),
      CallExpressionNode("identifier", "css")>> \o JSXItem }

PragmaInputs ==
  { [opts |-> NoOpts,
     file |-> [NoFile EXCEPT !.filename = T_filename, !.code = T_plainCode,
                             !.comments = comments, !.body = body]] :
      comments \in UNION { [1..n -> PragmaComments] : n \in 0..MaxComments },
      body \in PragmaBodies }

PragmaEffects == {"none"}

NextPragma == NextOver({1}, PragmaInputs, PragmaEffects)

SpecPragma == Init /\ [][NextPragma]_vars

(***************************************************************************)
(* The helper-import universe: files that import styled, use it, and        *)
(* declare forwardRef, or not.                                             *)
(***************************************************************************)
\* import { styled as s } from '@compiled/react';
\* import { forwardRef } from 'react'; s.div`...`; <a/>
HelperItems ==
  { <<ImportDeclarationNode(DEFAULT_IMPORT_SOURCE, <<ImportSpecifier("styled", "s")>>)>>,
    <<ImportDeclarationNode(T_react, <<ImportSpecifier("forwardRef", "forwardRef")>>)>>,
    <<TaggedTemplateExpressionNode("member", "s")>>,
    JSXItem }

HelperInputs ==
  { [opts |-> NoOpts,
     file |-> [NoFile EXCEPT !.filename = T_filename, !.code = code,
                             !.body = body]] :
      code \in {T_plainCode, T_xcssCode}, body \in Bodies(HelperItems) }

HelperEffects == {"none", "throw"}

NextHelper == NextOver({1}, HelperInputs, HelperEffects)

SpecHelper == Init /\ [][NextHelper]_vars

(***************************************************************************)
(* The import universe: declarations with default, API and other            *)
(* specifiers, from recognized and unrecognized modules.                    *)
(***************************************************************************)
\* import D, { css as a, css as b }, { keyframes, x }, { styled as s }
\* from '@compiled/react'; import { css } from 'react'; a(...); <a/>
ImportItems ==
  { <<ImportDeclarationNode(DEFAULT_IMPORT_SOURCE,
        <<ImportDefaultSpecifier("D"), ImportSpecifier("css", "a"),
          ImportSpecifier("css", "b")>>)>>,
    <<ImportDeclarationNode(DEFAULT_IMPORT_SOURCE,
        <<ImportSpecifier("keyframes", "keyframes"), ImportSpecifier("x", "x")>>)>>,
    <<ImportDeclarationNode(DEFAULT_IMPORT_SOURCE, <<ImportSpecifier("styled", "s")>>)>>,
    <<ImportDeclarationNode(T_react, <<ImportSpecifier("css", "css")>>)>>,
    <<CallExpressionNode("identifier", "a")>>,
    JSXItem }

ImportInputs ==
  { [opts |-> NoOpts,
     file |-> [NoFile EXCEPT !.filename = T_filename, !.code = T_plainCode,
                             !.body = body]] :
      body \in Bodies(ImportItems) }

ImportEffects == {"none"}

NextImports == NextOver({1}, ImportInputs, ImportEffects)

SpecImports == Init /\ [][NextImports]_vars

(***************************************************************************)
(* The raw-text universe: spellings of the special style prop.              *)
(***************************************************************************)
Markup(attribute) == <<"<", "a", " ">> \o attribute \o <<"s", "}", "/", ">">>

T_capitalCode == Markup(<<"a", "X", "c", "s", "s", "=", "{">>)
T_upperCode == Markup(<<"X", "C", "S", "S", "=", "{">>)
T_mixedCode == Markup(<<"x", "C", "s", "s", "=", "{">>)
T_cssCode == Markup(<<"c", "s", "s", "=", "{">>)
T_spacedCode == Markup(<<"x", "c", "s", "s", " ", "=", "{">>)

ScanCodes ==
  { T_plainCode, T_xcssCode, T_capitalCode, T_upperCode, T_mixedCode, T_cssCode,
    T_spacedCode }

ScanInputs ==
  { [opts |-> [NoOpts EXCEPT !.processXcss = processXcss],
     file |-> [NoFile EXCEPT !.filename = T_filename, !.code = code,
                             !.body = body]] :
      processXcss \in {"unset", "true", "false"}, code \in ScanCodes,
      body \in PragmaBodies }

ScanEffects == {"none"}

NextScan == NextOver({1}, ScanInputs, ScanEffects)

SpecScan == Init /\ [][NextScan]_vars

(***************************************************************************)
(* The files universe: several compilations of one process under way at     *)
(* once, with handlers that raise errors and resolvers that fail to load.   *)
(***************************************************************************)
\* import { css, x } from '@compiled/react'; css`...`; <a xcss={s}/>
StyledFile ==
  [NoFile EXCEPT
     !.filename = T_filename, !.code = T_xcssCode,
     !.body = <<ImportDeclarationNode(DEFAULT_IMPORT_SOURCE,
                  <<ImportSpecifier("css", "css"), ImportSpecifier("x", "x")>>),
                TaggedTemplateExpressionNode("identifier", "css")>> \o JSXItem]

\* /** @jsxImportSource @compiled/react */
\* import { css } from '@compiled/react'; css(...); <a/>
PragmaFile ==
  [NoFile EXCEPT
     !.filename = T_filename, !.code = T_plainCode, !.comments = <<T_sourcePragma>>,
     !.body = <<ImportDeclarationNode(DEFAULT_IMPORT_SOURCE,
                  <<ImportSpecifier("css", "css")>>),
                CallExpressionNode("identifier", "css")>> \o JSXItem]

FilesInputs ==
  { [opts |-> [NoOpts EXCEPT !.resolver = resolver, !.onIncludedFiles = "callback"],
     file |-> f] :
      resolver \in {"unset", "missing"}, f \in {StyledFile, PragmaFile} }

FilesEffects == {"none", "include_a", "throw"}

NextFiles == NextOver(Slots, FilesInputs, FilesEffects)

SpecFiles == Init /\ [][NextFiles]_vars

(***************************************************************************)
(* Properties.                                                             *)
(***************************************************************************)
Started(c) == pc[c] # "idle"

\* the Cache instance of a started compilation
CacheOf(c) == caches[state[c].cache]

\* finalization ran for c: the exit passed its gate
FinalizationRan(c) ==
  \E k \in 1..Len(calls[c]) : calls[c][k].handler = "appendRuntimeImports"

\* handler was invoked on node id of c
Invoked(c, handler, id) ==
  \E k \in 1..Len(calls[c]) : calls[c][k] = [handler |-> handler, node |-> id]

\* C1 (as claimed): any two compilations that both set cache: true hold the
\* same Cache instance, so what one stored the other finds.
C1_SharedCacheIsOneInstance ==
  \A c1, c2 \in Slots :
     (/\ c1 # c2
      /\ Started(c1) /\ Started(c2)
      /\ opts[c1].cache = "true" /\ opts[c2].cache = "true")
     => /\ state[c1].cache = state[c2].cache
        /\ CacheOf(c1).entries \subseteq CacheOf(c2).entries

\* C9: two compilations without the shared-cache option hold distinct Cache
\* instances and see only their own entries; the cache of every compilation
\* is initialized exactly once, with its options, from pre on (so before any
\* visitor hook or handler).
C9_UnsharedCachesDistinctInitializedOnce ==
  /\ \A c1, c2 \in Slots :
        (/\ c1 # c2
         /\ Started(c1) /\ Started(c2)
         /\ opts[c1].cache # "true" /\ opts[c2].cache # "true")
        => /\ state[c1].cache # state[c2].cache
           /\ CacheOf(c1).entries \subseteq {c1}
  /\ \A c \in Slots :
        Started(c) =>
          /\ state[c].cache \in 1..Len(caches)
          /\ CacheOf(c).initialized = 1
          /\ CacheOf(c).options.cache = (opts[c].cache = "true")
  /\ \A c \in Slots : ~Started(c) => calls[c] = << >> /\ state[c].cache = 0

\* C9 witness: two finished compilations without the option, each having
\* stored an entry in its own cache
C9_Witness ==
  \E c1, c2 \in Slots :
     /\ c1 # c2
     /\ pc[c1] = "done" /\ pc[c2] = "done"
     /\ opts[c1].cache = "unset" /\ opts[c2].cache = "false"
     /\ CacheOf(c1).entries = {c1} /\ CacheOf(c2).entries = {c2}

\* the body of c as parsed, every node in place
InputTree(c) ==
  [i \in 1..Len(file[c].body) |-> [node |-> file[c].body[i], status |-> "present"]]

\* the output of c is its input: nothing inserted, stamped, called or cleaned
Untouched(c) ==
  /\ tree[c] = InputTree(c)
  /\ output[c] = NoOutput
  /\ calls[c] = << >>
  /\ notified[c] = << >>
  /\ applied[c] = << >>

\* no import declaration of the file names a recognized module
NoRecognizedImport(c) ==
  \A i \in 1..Len(file[c].body) :
     file[c].body[i].kind = "ImportDeclaration"
       => ~isCompiledModule(file[c].body[i].source, state[c].importSources,
                            file[c].filename)

\* no comment of the file is an @jsxImportSource pragma naming the default origin
NoSourcePragma(c) ==
  \A k \in 1..Len(file[c].comments) :
     LET m == JSX_SOURCE_ANNOTATION_REGEX(file[c].comments[k])
     IN ~(m.matched /\ m.group = DEFAULT_IMPORT_SOURCE)

\* C2 (as claimed): a file with no recognized import whose text does not match
\* the xcss pattern comes out as it went in.
C2_NoOpWithoutImportOrXcssText ==
  \A c \in Slots :
     (pc[c] = "done" /\ NoRecognizedImport(c) /\ ~XcssRegexTest(file[c].code))
       => Untouched(c)

\* C2 (amended): a file with no recognized import, no @jsxImportSource pragma
\* naming the default origin and no xcss match in its text is never touched:
\* at every point of its compilation the tree is the input, nothing was
\* inserted or stamped, no handler or callback was called, nothing cleaned.
C2_NoOpWithoutImportPragmaOrXcssText ==
  \A c \in Slots :
     (Started(c) /\ NoRecognizedImport(c) /\ NoSourcePragma(c)
        /\ ~XcssRegexTest(file[c].code))
       => Untouched(c)

\* C2 witness: such a file, with an unrecognized import, a template and a
\* markup element in it, has been compiled to the end
C2_Witness ==
  /\ pc[1] = "done"
  /\ NoRecognizedImport(1) /\ NoSourcePragma(1) /\ ~XcssRegexTest(file[1].code)
  /\ \E i, j, k \in 1..Len(file[1].body) :
        /\ file[1].body[i].kind = "ImportDeclaration"
        /\ file[1].body[j].kind = "TaggedTemplateExpression"
        /\ file[1].body[k].kind = "JSXOpeningElement"

ReactImport == "import * as React from 'react'"

InsertedReact(c) ==
  \E k \in 1..Len(output[c].body) : output[c].body[k] = ReactImport

\* the file declares React (none of the model's handlers removes a declaration)
DeclaresReact(c) ==
  \E i \in 1..Len(file[c].body) :
     \E k \in 1..Len(file[c].body[i].specifiers) :
        /\ file[c].body[i].specifiers[k].local = "React"
        /\ ~IsApiSpecifier(file[c].body[i].specifiers[k])

\* C6: with importReact false the framework import is never inserted; otherwise
\* it is inserted exactly when finalization ran, neither pragma flag is set and
\* the file declares no React.
C6_GatedAutoImport ==
  \A c \in Slots :
     /\ opts[c].importReact = "false" => ~InsertedReact(c)
     /\ opts[c].importReact # "false" =>
          (InsertedReact(c) <=>
             /\ pc[c] = "done"
             /\ FinalizationRan(c)
             /\ ~state[c].pragma.jsxImportSource
             /\ ~state[c].pragma.jsx
             /\ ~DeclaresReact(c))
     /\ Len(SelectSeq(output[c].body, LAMBDA x : x = ReactImport)) <= 1

\* C6 witness: finalization ran with importReact false on a file that uses the
\* style API, has no pragma and declares no React
C6_Witness ==
  /\ pc[1] = "done"
  /\ opts[1].importReact = "false"
  /\ FinalizationRan(1)
  /\ state[1].compiledImports.names["styled"] = "s"
  /\ ~state[1].pragma.jsxImportSource /\ ~state[1].pragma.jsx
  /\ ~DeclaresReact(1)

T_xcss_eq_brace == <<"x">> \o T_css_eq_brace

ContainsText(s, lit) == \E i \in 1..Len(s) : StartsWithAt(s, i, lit)

\* the JSXOpeningElement nodes of c the traversal is past
OpeningElementsVisited(c) ==
  { i \in 1..Len(tree[c]) :
      tree[c][i].node.kind = "JSXOpeningElement" /\ i < idx[c] }

\* C7: in a file with no recognized import and no source pragma whose text
\* contains xcss={, with processXcss unset or true, the xcss flag is set from
\* traversal entry on, every opening element is handed to the xcss handler
\* and not to the css-prop handler, and the exit finalizes and stamps the
\* provenance comment first; with processXcss false the flag is never set.
C7_XcssOnly ==
  \A c \in Slots :
     /\ (/\ pc[c] \in {"visit", "done", "aborted"}
         /\ NoRecognizedImport(c) /\ NoSourcePragma(c)
         /\ ContainsText(file[c].code, T_xcss_eq_brace)
         /\ opts[c].processXcss # "false")
        => /\ state[c].usesXcss
           /\ \A i \in OpeningElementsVisited(c) :
                 /\ Invoked(c, "visitXcssPropPath", i)
                 /\ ~Invoked(c, "visitCssPropPath", i)
           /\ pc[c] = "done" =>
                 /\ FinalizationRan(c)
                 /\ Len(output[c].comments) > 0
                 /\ output[c].comments[1] = ProvenanceComment(file[c])
     /\ opts[c].processXcss = "false" => ~state[c].usesXcss

\* C7 witness: such a file with a markup element, compiled to the end
C7_Witness ==
  /\ pc[1] = "done"
  /\ NoRecognizedImport(1) /\ NoSourcePragma(1)
  /\ ContainsText(file[1].code, T_xcss_eq_brace)
  /\ opts[1].processXcss = "unset"
  /\ OpeningElementsVisited(1) # {}
  /\ ~state[1].compiledImports.defined

\* the local names under which a recognized import declaration at position
\* i of the file imports css
CssAliasesAt(c, i) ==
  IF /\ file[c].body[i].kind = "ImportDeclaration"
     /\ isCompiledModule(file[c].body[i].source, state[c].importSources,
                         file[c].filename)
    THEN { file[c].body[i].specifiers[k].local :
             k \in { n \in 1..Len(file[c].body[i].specifiers) :
                       /\ file[c].body[i].specifiers[n].type = "ImportSpecifier"
                       /\ file[c].body[i].specifiers[n].imported = "css" } }
  ELSE {}

CssAliases(c) == UNION { CssAliasesAt(c, i) : i \in 1..Len(file[c].body) }

\* node j of the file is a call or template whose callee/tag is the identifier name
IsUseOf(c, j, name) ==
  /\ file[c].body[j].kind \in {"CallExpression", "TaggedTemplateExpression"}
  /\ file[c].body[j].shape = "identifier"
  /\ file[c].body[j].callee = name

\* the replace actions queued for node j
ReplacesQueued(c, j) ==
  Len(SelectSeq(state[c].pathsToCleanup,
                LAMBDA clean : clean = [path |-> j, action |-> "replace"]))

\* C3 (as claimed): once the file has been traversed, every call or template
\* that follows a recognized import of css under the local name L and whose
\* callee/tag is L has exactly one replace action queued, and no call whose
\* callee is not such a name was treated as a css construct (normalized and
\* queued).
C3_AliasTransparency ==
  \A c \in Slots :
     pc[c] = "done" =>
       /\ \A i, j \in 1..Len(file[c].body) :
             \A L \in CssAliasesAt(c, i) :
                (i < j /\ IsUseOf(c, j, L)) => ReplacesQueued(c, j) = 1
       /\ \A j \in 1..Len(file[c].body) :
             (/\ file[c].body[j].kind \in {"CallExpression", "TaggedTemplateExpression"}
              /\ file[c].body[j].callee \notin CssAliases(c))
             => ~(ReplacesQueued(c, j) > 0 /\ Invoked(c, "normalizePropsUsage", j))

\* C5: nothing is applied before the exit; at the exit the queued actions are
\* applied once each in the order they were queued; a removed node is gone,
\* a replaced node is a null literal, and nothing else became a null literal
\* or (import declarations aside) was removed.
C5_FifoCleanup ==
  \A c \in Slots :
     /\ pc[c] # "done" => applied[c] = << >>
     /\ pc[c] = "done" =>
          /\ applied[c] = state[c].pathsToCleanup
          /\ \A k \in 1..Len(applied[c]) :
                tree[c][applied[c][k].path].status =
                  (IF applied[c][k].action = "remove" THEN "removed" ELSE "null")
          /\ \A i \in 1..Len(tree[c]) :
                (tree[c][i].status # "present"
                   /\ tree[c][i].node.kind # "ImportDeclaration")
                => IsQueued(state[c], i)

\* C5 witness: a finished compilation that applied a replace and a remove, the
\* removed node standing earlier in the tree than a node cleaned before it
C5_Witness ==
  /\ pc[1] = "done"
  /\ \E k \in 1..Len(applied[1]) : applied[1][k].action = "replace"
  /\ \E k, l \in 1..Len(applied[1]) :
        /\ k < l
        /\ applied[1][l].action = "remove"
        /\ applied[1][l].path < applied[1][k].path

\* the import tracker's edit of the node under the cursor: API specifiers
\* stripped from a recognized declaration, the declaration removed when empty
IsImportStrip(c, before, after) ==
  /\ before.node.kind = "ImportDeclaration"
  /\ isCompiledModule(before.node.source, state[c].importSources, file[c].filename)
  /\ before.status = "present"
  /\ after.node = [before.node EXCEPT
                     !.specifiers = SelectSeq(@, LAMBDA sp : ~IsApiSpecifier(sp))]
  /\ after.status = IF Len(after.node.specifiers) = 0 THEN "removed" ELSE "present"

\* C10 (as claimed): no step of the traversal changes the tree.
C10_NoMutationDuringTraversal ==
  [][\A c \in Slots :
        (pc[c] = "visit" /\ pc'[c] # "done") => tree'[c] = tree[c]]_vars

\* C10 (amended): a step of the traversal changes the tree only at the node
\* under the cursor and only as the import tracker does (stripping the API
\* specifiers of a recognized import declaration, removing the declaration
\* when none is left); every other node keeps its place until the exit.
C10_OnlyImportsStrippedDuringTraversal ==
  [][\A c \in Slots :
        (pc[c] = "visit" /\ pc'[c] # "done") =>
          /\ Len(tree'[c]) = Len(tree[c])
          /\ \A i \in 1..Len(tree[c]) :
                tree'[c][i] # tree[c][i] =>
                  /\ i = idx[c]
                  /\ IsImportStrip(c, tree[c][i], tree'[c][i])]_vars

\* C10 witness: in mid-traversal an import declaration has been removed and a
\* queued call is still in place
C10_Witness ==
  /\ pc[1] = "visit"
  /\ \E i, j \in 1..Len(tree[1]) :
        /\ tree[1][i].node.kind = "ImportDeclaration"
        /\ tree[1][i].status = "removed"
        /\ ReplacesQueued(1, j) = 1
        /\ tree[1][j].status = "present"

\* the origins the importSources option configured (the first entry of
\* state.importSources is the default origin)
ConfiguredOrigins(c) ==
  { state[c].importSources[k] : k \in 2..Len(state[c].importSources) }

IsOrderedDedupe(arg, list) ==
  /\ { arg[k] : k \in 1..Len(arg) } = { list[k] : k \in 1..Len(list) }
  /\ \A k, l \in 1..Len(arg) : k # l => arg[k] # arg[l]
  /\ \A k, l \in 1..Len(arg) :
        k < l =>
          \E m \in 1..Len(list) :
             /\ list[m] = arg[k]
             /\ \A n \in 1..m : list[n] # arg[l]

\* C8: onIncludedFiles is called at most once per compilation; it has been
\* called exactly when the exit finalized with a callback configured and a
\* non-empty included-file list; its argument is that list de-duplicated in
\* order of first occurrence.
C8_OnIncludedFilesOnce ==
  \A c \in Slots :
     /\ Len(notified[c]) <= 1
     /\ Len(notified[c]) = 1 <=>
          /\ pc[c] = "done"
          /\ FinalizationRan(c)
          /\ opts[c].onIncludedFiles = "callback"
          /\ Len(state[c].includedFiles) > 0
     /\ Len(notified[c]) = 1 =>
          IsOrderedDedupe(notified[c][1], state[c].includedFiles)

\* C8 witness: the callback got a.css, b.css for the list a.css, b.css, a.css
C8_Witness ==
  /\ pc[1] = "done"
  /\ state[1].includedFiles = <<"a.css", "b.css", "a.css">>
  /\ notified[1] = << <<"a.css", "b.css">> >>

(***************************************************************************)
(* The pragma flags after traversal entry.                                 *)
(***************************************************************************)
\* Program.enter has run for the compilation
Entered(c) == idx[c] > 0

\* the comments of the file the given pattern matches, by position
GenericMatches(c) ==
  { i \in 1..Len(file[c].comments) : JSX_ANNOTATION_REGEX(file[c].comments[i]).matched }
SourceMatches(c) ==
  { i \in 1..Len(file[c].comments) :
      JSX_SOURCE_ANNOTATION_REGEX(file[c].comments[i]).matched }

GenericToken(c, i) == JSX_ANNOTATION_REGEX(file[c].comments[i]).group
SourceValue(c, i) == JSX_SOURCE_ANNOTATION_REGEX(file[c].comments[i]).group

Max(S) == CHOOSE x \in S : \A y \in S : y <= x

\* C11, as stated: after traversal entry the generic-annotation flag is true
\* whenever some comment matches the generic pattern, whatever token it captured.
C11_GenericFlagWhateverToken ==
  \A c \in Slots :
    (Entered(c) /\ GenericMatches(c) # {}) => state[c].pragma.jsx

\* C11, amended: after traversal entry the generic-annotation flag is true
\* exactly when some comment matches the generic pattern and the token it
\* captured is jsx; a match that captured another token does not set it.
C11_GenericFlagOnlyForJsxToken ==
  \A c \in Slots :
    Entered(c) =>
      (state[c].pragma.jsx <=>
         \E i \in GenericMatches(c) : GenericToken(c, i) = <<"j", "s", "x">>)

\* a file with a generic pragma of another token and the flag not set
C11_Witness ==
  \E c \in Slots :
    /\ Entered(c)
    /\ \E i \in GenericMatches(c) : GenericToken(c, i) = <<"h">>
    /\ ~state[c].pragma.jsx

\* C12, as stated: when several comments match the source-annotation pattern,
\* the source-annotation flag after traversal entry is the one the last
\* matching comment alone determines (true iff its captured value is the
\* default module origin).
C12_LastMatchWins ==
  \A c \in Slots :
    (Entered(c) /\ Cardinality(SourceMatches(c)) >= 2) =>
      (state[c].pragma.jsxImportSource <=>
         SourceValue(c, Max(SourceMatches(c))) = DEFAULT_IMPORT_SOURCE)

\* C12, amended: when several comments match a pragma pattern, the flag after
\* traversal entry is true iff any one of them captured the required value
\* (the default module origin for the source annotation, jsx for the generic
\* one), whatever the other matching comments, earlier or later, captured.
C12_AnyMatchWins ==
  \A c \in Slots :
    Entered(c) =>
      /\ Cardinality(SourceMatches(c)) >= 2 =>
            (state[c].pragma.jsxImportSource <=>
               \E i \in SourceMatches(c) : SourceValue(c, i) = DEFAULT_IMPORT_SOURCE)
      /\ Cardinality(GenericMatches(c)) >= 2 =>
            (state[c].pragma.jsx <=>
               \E i \in GenericMatches(c) : GenericToken(c, i) = <<"j", "s", "x">>)

\* the default origin in an earlier comment, another value in the last one,
\* and the flag set
C12_Witness ==
  \E c \in Slots :
    /\ Entered(c)
    /\ Cardinality(SourceMatches(c)) >= 2
    /\ SourceValue(c, Max(SourceMatches(c))) # DEFAULT_IMPORT_SOURCE
    /\ state[c].pragma.jsxImportSource

(***************************************************************************)
(* The dispatcher's outcomes.                                              *)
(***************************************************************************)
\* what one visit added to a sequence
Added(before, after) == SubSeq(after, Len(before) + 1, Len(after))

Call(handler, id) == [handler |-> handler, node |-> id]

IsStyleMap(node, ci) == isCompiledCSSMapCallExpression(node, ci)
IsCss(node, ci) ==
  isCompiledCSSTaggedTemplateExpression(node, ci) \/ isCompiledCSSCallExpression(node, ci)
IsKeyframes(node, ci) ==
  \/ isCompiledKeyframesTaggedTemplateExpression(node, ci)
  \/ isCompiledKeyframesCallExpression(node, ci)
IsStyled(node, ci) ==
  \/ isCompiledStyledTaggedTemplateExpression(node, ci)
  \/ isCompiledStyledCallExpression(node, ci)

\* the replace actions among the queue entries
Replaces(queue) == SelectSeq(queue, LAMBDA clean : clean.action = "replace")

\* the visit of the call/template node under the cursor of c
DispatchStep(c) ==
  /\ Visiting(c, {"TaggedTemplateExpression", "CallExpression"})
  /\ idx'[c] # idx[c] \/ pc'[c] # pc[c]

\* C13: the visit of a call/template node has exactly one of four outcomes,
\* by the first test that holds in the order style-map, css-or-keyframes,
\* styled: (1) only the style-map handler is invoked; (2) exactly one
\* replace action is queued for the node and no extraction handler is
\* invoked; (3) only the styled handler is invoked; (4) nothing happens.
\* The props normalization runs iff the node is not a style-map construct and
\* is a css or styled construct, and it runs before outcome (2) or (3).
C13_DispatcherOutcomes ==
  [][\A c \in Slots :
       DispatchStep(c) =>
         LET id == idx[c]
             node == tree[c][id].node
             ci == state[c].compiledImports
             newCalls == Added(calls[c], calls'[c])
             newReplaces == Replaces(Added(state[c].pathsToCleanup,
                                           state'[c].pathsToCleanup))
             normalize == IF ~IsStyleMap(node, ci)
                               /\ (IsCss(node, ci) \/ IsStyled(node, ci))
                            THEN <<Call("normalizePropsUsage", id)>> ELSE << >>
         IN IF IsStyleMap(node, ci)
              THEN /\ newCalls = <<Call("visitCssMapPath", id)>>
                   /\ newReplaces = << >>
            ELSE IF IsCss(node, ci) \/ IsKeyframes(node, ci)
              THEN /\ newCalls = normalize
                   /\ newReplaces = <<[path |-> id, action |-> "replace"]>>
                   /\ Len(state'[c].pathsToCleanup)
                        = Len(state[c].pathsToCleanup) + 1
            ELSE IF IsStyled(node, ci)
              THEN /\ newCalls = normalize \o <<Call("visitStyledPath", id)>>
                   /\ newReplaces = << >>
            ELSE /\ newCalls = << >>
                 /\ state'[c] = state[c]
                 /\ tree'[c] = tree[c]]_vars

\* a keyframes node queued without normalization and a styled node handed to
\* its handler after normalization, in one file
C13_Witness ==
  \E c \in Slots :
    \E k, l \in 1..Len(tree[c]) :
       /\ pc[c] = "visit"
       /\ tree[c][k].node.callee = "keyframes"
       /\ \E q \in 1..Len(state[c].pathsToCleanup) :
             state[c].pathsToCleanup[q] = [path |-> k, action |-> "replace"]
       /\ \A n \in 1..Len(calls[c]) : calls[c][n].node # k
       /\ \E n \in 1..(Len(calls[c]) - 1) :
             /\ calls[c][n] = Call("normalizePropsUsage", l)
             /\ calls[c][n + 1] = Call("visitStyledPath", l)

(***************************************************************************)
(* The helper import.                                                      *)
(***************************************************************************)
ForwardRefImport == "import { forwardRef } from 'react'"

InsertedForwardRef(c) ==
  \E k \in 1..Len(output[c].body) : output[c].body[k] = ForwardRefImport

\* the file declares forwardRef
DeclaresForwardRef(c) ==
  \E i \in 1..Len(file[c].body) :
     \E k \in 1..Len(file[c].body[i].specifiers) :
        /\ file[c].body[i].specifiers[k].local = "forwardRef"
        /\ ~IsApiSpecifier(file[c].body[i].specifiers[k])

\* the styled-component handler was invoked for some node
StyledFired(c) ==
  \E n \in 1..Len(calls[c]) : calls[c][n].handler = "visitStyledPath"

\* the file imports the styled API from a recognized module
ImportsStyled(c) ==
  \E i \in 1..Len(file[c].body) :
     /\ file[c].body[i].kind = "ImportDeclaration"
     /\ isCompiledModule(file[c].body[i].source, state[c].importSources,
                          file[c].filename)
     /\ \E k \in 1..Len(file[c].body[i].specifiers) :
           /\ file[c].body[i].specifiers[k].type = "ImportSpecifier"
           /\ file[c].body[i].specifiers[k].imported = "styled"

\* C14, as stated: the helper import is inserted only if the styled-component
\* handler was invoked for at least one node and the file has no forwardRef
\* binding; a file in which no styled construct fired never gets it.
C14_HelperImportOnlyIfStyledFired ==
  \A c \in Slots :
    InsertedForwardRef(c) => (StyledFired(c) /\ ~DeclaresForwardRef(c))

\* C14, amended: the helper import is inserted only if the file imports the
\* styled API from a recognized module and has no forwardRef binding, and
\* then only once; a file that does not import styled never gets it.
C14_HelperImportOnlyIfStyledImported ==
  \A c \in Slots :
    /\ InsertedForwardRef(c) =>
         /\ pc[c] = "done"
         /\ ImportsStyled(c)
         /\ ~DeclaresForwardRef(c)
    /\ Len(SelectSeq(output[c].body, LAMBDA x : x = ForwardRefImport)) <= 1

\* the helper import inserted for a file whose styled construct fired
C14_Witness ==
  \E c \in Slots : pc[c] = "done" /\ InsertedForwardRef(c) /\ StyledFired(c)

(***************************************************************************)
(* The import tracker.                                                     *)
(***************************************************************************)
NamesApi(specifier) ==
  /\ specifier.type = "ImportSpecifier"
  /\ specifier.imported \in {"styled", "ClassNames", "css", "keyframes", "cssMap"}

\* the visit of the import declaration under the cursor of c
ImportStep(c) ==
  /\ Visiting(c, {"ImportDeclaration"})
  /\ idx'[c] # idx[c]

\* C15: after the tracker has run on an import declaration from a recognized
\* module the record exists, every named specifier of one of the five API
\* names is removed and its local name is recorded under that API name, the
\* other specifiers are still on the declaration in their order, and the
\* declaration is removed iff no specifier is left; a declaration from an
\* unrecognized module and the record are left as they were.
C15_ImportTracker ==
  [][\A c \in Slots :
       ImportStep(c) =>
         LET id == idx[c]
             node == tree[c][id].node
             after == tree'[c][id]
             others == SelectSeq(node.specifiers, LAMBDA sp : ~NamesApi(sp))
         IN IF isCompiledModule(node.source, state[c].importSources, file[c].filename)
              THEN /\ state'[c].compiledImports.defined
                   /\ \A k \in 1..Len(node.specifiers) :
                         NamesApi(node.specifiers[k]) =>
                           state'[c].compiledImports.names[node.specifiers[k].imported]
                             = node.specifiers[k].local
                   /\ after.node.specifiers = others
                   /\ after.status = "removed" <=> Len(others) = 0
            ELSE /\ tree'[c] = tree[c]
                 /\ state'[c].compiledImports = state[c].compiledImports]_vars

(***************************************************************************)
(* The markup hooks.                                                       *)
(***************************************************************************)
\* the visit of the markup node of the given kind under the cursor of c
MarkupStep(c, kind) ==
  /\ Visiting(c, {kind})
  /\ idx'[c] # idx[c] \/ pc'[c] # pc[c]

HasRecord(c) == state[c].compiledImports.defined
HasClassNames(c) == HasRecord(c) /\ state[c].compiledImports.names["ClassNames"] # ""

\* the handlers the two checks of an opening element call when both return
OpeningCalls(c) ==
  (IF state[c].usesXcss THEN <<Call("visitXcssPropPath", idx[c])>> ELSE << >>)
    \o (IF HasRecord(c) THEN <<Call("visitCssPropPath", idx[c])>> ELSE << >>)

ElementCalls(c) ==
  IF HasClassNames(c) THEN <<Call("visitClassNamesPath", idx[c])>> ELSE << >>

\* C16, as stated: on every opening element the xcss handler is invoked iff
\* the uses-special-style-prop flag is set and the css handler iff the record
\* exists, the xcss handler first; on every markup element the
\* class-composition handler is invoked iff the record holds ClassNames.
C16_MarkupChecksIndependent ==
  [][\A c \in Slots :
       /\ MarkupStep(c, "JSXOpeningElement") =>
            Added(calls[c], calls'[c]) = OpeningCalls(c)
       /\ MarkupStep(c, "JSXElement") =>
            Added(calls[c], calls'[c]) = ElementCalls(c)]_vars

\* the xcss handler raised an error on the opening element under the cursor
XcssHandlerRaised(c) ==
  /\ pc'[c] = "aborted"
  /\ Added(calls[c], calls'[c]) = <<Call("visitXcssPropPath", idx[c])>>

\* C16, amended: as stated, except that the css handler is not invoked on an
\* opening element on which the xcss handler, run first, raised an error.
C16_MarkupChecksIndependentUnlessRaised ==
  [][\A c \in Slots :
       /\ MarkupStep(c, "JSXOpeningElement") =>
            IF state[c].usesXcss /\ XcssHandlerRaised(c) THEN TRUE
            ELSE Added(calls[c], calls'[c]) = OpeningCalls(c)
       /\ MarkupStep(c, "JSXElement") =>
            Added(calls[c], calls'[c]) = ElementCalls(c)]_vars

\* both handlers have run on one opening element, the xcss handler first,
\* and the compilation goes on
C16_Witness ==
  \E c \in Slots :
    /\ pc[c] = "visit"
    /\ \E n \in 1..(Len(calls[c]) - 1) :
          /\ calls[c][n].handler = "visitXcssPropPath"
          /\ calls[c][n + 1] = Call("visitCssPropPath", calls[c][n].node)

(***************************************************************************)
(* The raw-text scan.                                                      *)
(***************************************************************************)
LowerCase(ch) ==
  IF ch = "X" THEN "x" ELSE IF ch = "C" THEN "c" ELSE IF ch = "S" THEN "s" ELSE ch

\* the text holds xcss={ in some letter-case spelling
ContainsXcssAnyCase(code) ==
  ContainsText([i \in 1..Len(code) |-> LowerCase(code[i])],
               <<"x", "c", "s", "s", "=", "{">>)

\* C17, as stated: with processXcss unset or true the uses-special-style-prop
\* flag is set after traversal entry exactly for the files whose text holds
\* xcss, in any letter-case spelling, immediately followed by ={ .
C17_ScanCaseInsensitive ==
  \A c \in Slots :
    (Entered(c) /\ opts[c].processXcss # "false") =>
      (state[c].usesXcss <=> ContainsXcssAnyCase(file[c].code))

\* C17, amended: with processXcss unset or true the flag is set after
\* traversal entry exactly for the files whose text holds xcss={ or Xcss={ :
\* only the first letter may be of either case.
C17_ScanFirstLetterEitherCase ==
  \A c \in Slots :
    (Entered(c) /\ opts[c].processXcss # "false") =>
      (state[c].usesXcss <=>
         \/ ContainsText(file[c].code, <<"x", "c", "s", "s", "=", "{">>)
         \/ ContainsText(file[c].code, <<"X", "c", "s", "s", "=", "{">>))

\* the flag set for a text that spells the prop with a capital X
C17_Witness ==
  \E c \in Slots :
    /\ Entered(c)
    /\ opts[c].processXcss # "false"
    /\ ContainsText(file[c].code, <<"X", "c", "s", "s", "=", "{">>)
    /\ state[c].usesXcss

(***************************************************************************)
(* Errors.                                                                 *)
(***************************************************************************)
\* the tree of c is its input but for the imports the tracker has stripped:
\* the recognized import declarations the traversal is past
StrippedOnly(c) ==
  /\ Len(tree[c]) = Len(file[c].body)
  /\ \A i \in 1..Len(tree[c]) :
        LET node == file[c].body[i]
            others == SelectSeq(node.specifiers, LAMBDA sp : ~NamesApi(sp))
        IN IF /\ i < idx[c]
              /\ node.kind = "ImportDeclaration"
              /\ isCompiledModule(node.source, state[c].importSources, file[c].filename)
             THEN tree[c][i] = [node |-> [node EXCEPT !.specifiers = others],
                                status |-> IF Len(others) = 0 THEN "removed"
                                           ELSE "present"]
           ELSE tree[c][i] = [node |-> node, status |-> "present"]

\* what the compilation of c holds
Compilation(c) ==
  <<pc[c], opts[c], file[c], state[c], tree[c], idx[c], output[c], calls[c],
    notified[c], applied[c], thrown[c]>>

\* the error of a handler or of the resolver load leaves the compilation
\* aborted, without finalization and without rollback
FailFast(c) ==
  /\ thrown[c] # "" => pc[c] = "aborted"
  /\ pc[c] = "aborted" =>
       /\ output[c] = NoOutput
       /\ notified[c] = << >>
       /\ applied[c] = << >>
       /\ ~FinalizationRan(c)
       /\ StrippedOnly(c)
  /\ (Started(c) /\ opts[c].resolver = "missing") =>
       /\ pc[c] = "aborted"
       /\ ~Entered(c)
       /\ Untouched(c)

\* C18: an error raised by an extraction handler is not caught; finalization
\* does not run for that file (no provenance comment, no inserted import, no
\* onIncludedFiles call, no queued cleanup action applied), now or later; the
\* imports already stripped stay stripped; the other compilations are left as
\* they were.  A resolver load failure aborts the file before the traversal
\* starts, with its tree unmodified.
C18_FailFastWithoutRollback ==
  /\ [](\A c \in Slots : FailFast(c))
  /\ [][\A c \in Slots :
          /\ pc[c] = "aborted" => Compilation(c)' = Compilation(c)
          /\ (pc[c] # "aborted" /\ pc'[c] = "aborted") =>
               /\ \A d \in Slots \ {c} : Compilation(d)' = Compilation(d)
               /\ globalCache' = globalCache
               /\ \A d \in Slots \ {c} :
                     Started(d) => caches'[state[d].cache] = caches[state[d].cache]]_vars

\* a handler raised an error after an import was stripped, a node queued and
\* an included file resolved, while another compilation has finished
C18_Witness ==
  \E c, d \in Slots :
    /\ thrown[c] \in {"visitXcssPropPath", "visitCssPropPath"}
    /\ \E i \in 1..Len(tree[c]) : tree[c][i] # InputTree(c)[i]
    /\ Len(state[c].pathsToCleanup) > 0
    /\ Len(state[c].includedFiles) > 0
    /\ pc[d] = "done"
    /\ FinalizationRan(d)

(***************************************************************************)
(* Several compilations under way.                                         *)
(***************************************************************************)
\* an event of the compilation of c
EventOf(c) == pc'[c] # pc[c] \/ idx'[c] # idx[c]

\* the flags of c are those of its own file and options
OwnFlags(c) ==
  /\ state[c].usesXcss <=>
       /\ opts[c].processXcss # "false"
       /\ \/ ContainsText(file[c].code, <<"x", "c", "s", "s", "=", "{">>)
          \/ ContainsText(file[c].code, <<"X", "c", "s", "s", "=", "{">>)
  /\ state[c].pragma.jsxImportSource <=>
       \E i \in SourceMatches(c) : SourceValue(c, i) = DEFAULT_IMPORT_SOURCE
  /\ state[c].pragma.jsx <=>
       \E i \in GenericMatches(c) : GenericToken(c, i) = <<"j", "s", "x">>
  /\ state[c].compiledImports.defined <=>
       \/ state[c].pragma.jsxImportSource
       \/ \E i \in 1..Len(file[c].body) :
             /\ i < idx[c]
             /\ file[c].body[i].kind = "ImportDeclaration"
             /\ isCompiledModule(file[c].body[i].source, state[c].importSources,
                                  file[c].filename)

\* the queue of c names nodes of its own file, each queued by an event of c:
\* a replace by the dispatcher on a call/template node the traversal is past
OwnQueue(c) ==
  \A k \in 1..Len(state[c].pathsToCleanup) :
     LET clean == state[c].pathsToCleanup[k]
     IN /\ clean.path \in 1..Len(file[c].body)
        /\ clean.action = "replace" =>
             /\ clean.path < idx[c] \/ pc[c] = "aborted"
             /\ file[c].body[clean.path].kind
                  \in {"CallExpression", "TaggedTemplateExpression"}

\* C19: under any interleaving of the events of the compilations, the pragma
\* flags, the uses-special-style-prop flag, the record, the included-file
\* list and the cleanup queue of a compilation are written only by its own
\* events and are those its own file determines, and the cleanup actions
\* applied at its finalization are exactly those queued during its traversal.
C19_CompilationsIsolated ==
  /\ [](\A c \in Slots :
          /\ Entered(c) => (OwnFlags(c) /\ OwnQueue(c))
          /\ (pc[c] = "done" /\ FinalizationRan(c)) =>
               applied[c] = state[c].pathsToCleanup
          /\ ~(pc[c] = "done" /\ FinalizationRan(c)) => applied[c] = << >>)
  /\ [][\A c \in Slots :
          EventOf(c) =>
            \A d \in Slots \ {c} :
               /\ state'[d] = state[d]
               /\ tree'[d] = tree[d]
               /\ applied'[d] = applied[d]]_vars

\* one compilation has applied its queue while another, with other flags, is
\* in mid-traversal with a node queued
C19_Witness ==
  \E c, d \in Slots :
    /\ pc[c] = "done"
    /\ Len(applied[c]) > 0
    /\ pc[d] = "visit"
    /\ Len(state[d].pathsToCleanup) > 0
    /\ state[c].usesXcss # state[d].usesXcss
    /\ state[c].pragma # state[d].pragma

(***************************************************************************)
(* The gate and the queue.                                                 *)
(***************************************************************************)
QueueNonEmpty(c) == Len(state[c].pathsToCleanup) > 0

\* C20: no queued cleanup action is dropped by the gate of the exit.  The
\* queue is non-empty only if the record exists or the uses-special-style-prop
\* flag is set; the record, once it exists, and each flag, once true, stay so
\* for the rest of the compilation; so a compilation that reaches the exit
\* with a non-empty queue passes the gate and applies the whole queue.
C20_QueueNeverDroppedByGate ==
  /\ [](\A c \in Slots :
          /\ QueueNonEmpty(c) => (state[c].compiledImports.defined \/ state[c].usesXcss)
          /\ (pc[c] = "done" /\ QueueNonEmpty(c)) =>
               /\ FinalizationRan(c)
               /\ applied[c] = state[c].pathsToCleanup)
  /\ [][\A c \in Slots :
          /\ state[c].compiledImports.defined => state'[c].compiledImports.defined
          /\ state[c].usesXcss => state'[c].usesXcss
          /\ state[c].pragma.jsxImportSource => state'[c].pragma.jsxImportSource
          /\ state[c].pragma.jsx => state'[c].pragma.jsx
          /\ Len(state'[c].pathsToCleanup) >= Len(state[c].pathsToCleanup)]_vars

\* a file without record whose queue, filled by the xcss handler, was applied
\* at the exit
C20_Witness ==
  \E c \in Slots :
    /\ pc[c] = "done"
    /\ QueueNonEmpty(c)
    /\ ~state[c].compiledImports.defined
    /\ state[c].usesXcss
    /\ applied[c] = state[c].pathsToCleanup

=============================================================================
